---- MODULE Spec2Model ----
(***************************************************************************)
(* node-event-tracker: the EventTracker coordinator, its two throttling    *)
(* strategies (SimpleCounterStrategy, TokenBucketStrategy) and the         *)
(* InMemoryAdapter store, as a state machine over a discrete clock.        *)
(*                                                                         *)
(* Every public operation is one action that runs the whole handler.       *)
(* Times are milliseconds, as Date.now() gives them.                       *)
(***************************************************************************)
EXTENDS Integers, Sequences, FiniteSets, Bags, TLC

VARIABLES
  now,      \* the reading of Date.now()
  events,   \* InMemoryAdapter.events: the Map from composite keys to records
  tracker,  \* the EventTracker's constructor options and its strategy's
  workload, \* what the callers of this run send: ids, details, config patches
  last,     \* the last operation: its inputs, return value and notifications
  hist,     \* per composite key: the outcomes of the trackEvent calls made
            \* since the key was last absent from storage (history variable)
  inflight, \* per caller: the trackEvent call it has started and not finished
  objs,     \* the record objects in-flight calls hold that `events` does not
  redis,    \* the Redis database a RedisAdapter works on
  lastRedis, \* the outcome of the last call made through the RedisAdapter
  processor, \* the background processor: whether onDeferredEventDue is a
            \* function, whether its interval timer runs, the ticks in progress
  purging,  \* whether the InMemoryAdapter's purge timer runs
  listeners, \* the notifications somebody listens to
  lifecycle, \* whether destroy() has returned, whether the process has exited
  delivered \* the notifications the last operation handed to listeners

\* the state of calls that overlap; used by the specifications whose callers
\* do not await one another, constant in the others
overlapping == <<inflight, objs>>

\* the shared store; used by the specification that runs the two storage
\* adapters side by side, constant in the others
sharedStore == <<redis, lastRedis>>

\* timers, listeners and the process
background == <<processor, purging, listeners, lifecycle>>

vars == <<now, events, tracker, workload, last, hist, overlapping, sharedStore,
          background, delivered>>

---------------------------------------------------------------------------
(* Bounds of the model *)

T0 == 1000        \* clock reading when the tracker is constructed
TickMs == 500     \* the clock advances in steps of this many ms
MaxTime == 2500   \* the clock stops here
MaxOver == 2      \* occurrences tracked beyond a record's budget

(* Program constants *)

DEFAULT_LIMIT == 5
DEFAULT_DEFER_INTERVAL_MS == 3600000
DEFAULT_EXPIRE_TIME_MS == 86400000
MsPerSecond == 1000
Null == -1        \* JavaScript null (scheduledSendAt of a record not deferred)

---------------------------------------------------------------------------
(* Inputs *)

Categories == {"net"}
Ids == {"a", "b"}

\* An `details` object is the sequence of its own properties, in insertion
\* order; a details value that is no object has isObject = FALSE.
Obj(fields) == [isObject |-> TRUE, fields |-> fields]
DetailsA == Obj(<< <<"code", "1">>, <<"host", "x">> >>)
DetailsA2 == Obj(<< <<"host", "x">>, <<"code", "1">> >>)
DetailsB == Obj(<< <<"code", "2">> >>)
Details == {DetailsA, DetailsA2, DetailsB}

\* Property names in the order Array.prototype.sort gives them.
SortedNames == <<"code", "host">>

---------------------------------------------------------------------------
(* Key Deriver: EventTracker.generateCompositeKey / generateDetailsHash.   *)
(* SHA-256 is taken as injective, so a digest is named by its preimage.    *)

generateCompositeKey(category, id) == category \o ":" \o id

RECURSIVE StringifyFields(_, _)
StringifyFields(fields, names) ==
  IF names = << >> THEN ""
  ELSE LET name == Head(names)
           hits == SelectSeq(fields, LAMBDA p : p[1] = name)
           rest == StringifyFields(fields, Tail(names))
       IN IF hits = << >> THEN rest
          ELSE "\"" \o name \o "\":\"" \o hits[Len(hits)][2] \o "\"" \o
               (IF rest = "" THEN "" ELSE "," \o rest)

\* Object.keys(details).sort(): the names of SortedNames the object has.
sortedKeys(details) ==
  SelectSeq(SortedNames, LAMBDA n : \E i \in DOMAIN details.fields : details.fields[i][1] = n)

generateDetailsHash(details) ==
  IF ~details.isObject THEN ""
  ELSE "{" \o StringifyFields(details.fields, sortedKeys(details)) \o "}"

AllKeys == {generateCompositeKey(c, i) : c \in Categories, i \in Ids}

---------------------------------------------------------------------------
(* InMemoryAdapter.  `store` is the Map `events`: a function from the keys  *)
(* it holds to their records.  The Map's iteration order is left out: the  *)
(* arrays built by iterating it are the sets of their elements.            *)

EmptyStore == [k \in {} |-> {}]

\* events.has(key): whether `get` returns a record rather than undefined
has(store, key) == key \in DOMAIN store

get(store, key) == store[key]

set(store, key, record) ==
  [k \in DOMAIN store \cup {key} |-> IF k = key THEN record ELSE store[k]]

delete_Kept(store, key) == store

delete(store, key) == [k \in DOMAIN store \ {key} |-> store[k]]

size(store) == Cardinality(DOMAIN store)

\* JavaScript truthiness of a number-or-null
Truthy(x) == x # Null /\ x # 0

isDue_Late(record, timestamp) ==
  record.deferred /\ Truthy(record.scheduledSendAt) /\ timestamp > record.scheduledSendAt

isDue(record, timestamp) ==
  record.deferred /\ Truthy(record.scheduledSendAt) /\ timestamp >= record.scheduledSendAt

findDueDeferred(store, timestamp) ==
  {store[k] : k \in {j \in DOMAIN store : isDue(store[j], timestamp)}}

purgeExpired_Early(store, t) ==
  [k \in {j \in DOMAIN store : ~(t >= store[j].expiresAt)} |-> store[k]]

purgeExpired(store, t) ==
  [k \in {j \in DOMAIN store : ~(t > store[j].expiresAt)} |-> store[k]]

---------------------------------------------------------------------------
(* Strategies.  `record` is the strategy's first argument: << >> for       *)
(* undefined, <<r>> for the stored record r.  `ev` is eventData, `t` the   *)
(* strategy's Date.now(), `trk` the tracker the strategy was built with.   *)

Outcome(outcome, record) == [outcome |-> outcome, record |-> record]

\* a config field read from a record; a missing field reads as undefined,
\* and every comparison with undefined is false
hasField(config, f) == f \in DOMAIN config

newCounterRecord(ev, t, trk) ==
  [ key |-> ev.compositeKey, category |-> ev.category, id |-> ev.id,
    details |-> ev.details, detailsHash |-> ev.detailsHash,
    count |-> 1, lastEventTime |-> t, expiresAt |-> t + trk.expireTime,
    deferred |-> FALSE, scheduledSendAt |-> Null,
    config |-> [limit |-> trk.limit, deferInterval |-> trk.deferInterval] ]

counterTouch_Reschedule(r, t, trk) ==
  [r EXCEPT !.count = @ + 1, !.lastEventTime = t, !.expiresAt = t + trk.expireTime,
            !.scheduledSendAt = IF r.deferred THEN t + r.config.deferInterval ELSE @]

counterTouch(r, t, trk) ==
  [r EXCEPT !.count = @ + 1, !.lastEventTime = t, !.expiresAt = t + trk.expireTime]

overLimit_AtLimit(r) == hasField(r.config, "limit") /\ r.count >= r.config.limit

overLimit_Global(r) == r.count > tracker.limit

overLimit(r) == hasField(r.config, "limit") /\ r.count > r.config.limit

counterDefer_NoSchedule(r, t) == [r EXCEPT !.deferred = TRUE]

counterDefer(r, t) ==
  [r EXCEPT !.deferred = TRUE, !.scheduledSendAt = t + r.config.deferInterval]

SimpleCounterTrack(record, ev, t, trk) ==
  LET updatedRecord == IF record = << >> THEN newCounterRecord(ev, t, trk)
                       ELSE counterTouch(record[1], t, trk)
  IN IF updatedRecord.deferred THEN Outcome("ignored", updatedRecord)
     ELSE IF overLimit(updatedRecord)
          THEN Outcome("deferred", counterDefer(updatedRecord, t))
          ELSE Outcome("immediate", updatedRecord)

newBucketRecord_Full(ev, t, trk) ==
  [ key |-> ev.compositeKey, category |-> ev.category, id |-> ev.id,
    details |-> ev.details, detailsHash |-> ev.detailsHash,
    count |-> 1, lastEventTime |-> t, expiresAt |-> t + trk.expireTime,
    deferred |-> FALSE, scheduledSendAt |-> Null,
    config |-> [bucketSize |-> trk.bucketSize, refillRate |-> trk.refillRate,
                deferInterval |-> trk.deferInterval],
    strategyData |-> [tokens |-> trk.bucketSize, lastRefill |-> t] ]

newBucketRecord(ev, t, trk) ==
  [ key |-> ev.compositeKey, category |-> ev.category, id |-> ev.id,
    details |-> ev.details, detailsHash |-> ev.detailsHash,
    count |-> 1, lastEventTime |-> t, expiresAt |-> t + trk.expireTime,
    deferred |-> FALSE, scheduledSendAt |-> Null,
    config |-> [bucketSize |-> trk.bucketSize, refillRate |-> trk.refillRate,
                deferInterval |-> trk.deferInterval],
    strategyData |-> [tokens |-> trk.bucketSize - 1, lastRefill |-> t] ]

Min(a, b) == IF a <= b THEN a ELSE b

\* Math.floor(((now - lastRefill) / 1000) * config.refillRate), for the
\* integer refill rates of this model
tokensToAdd(r, t) == ((t - r.strategyData.lastRefill) * r.config.refillRate) \div MsPerSecond

refill_Uncapped(r, t) ==
  IF tokensToAdd(r, t) > 0
  THEN << r.strategyData.tokens + tokensToAdd(r, t), t >>
  ELSE << r.strategyData.tokens, r.strategyData.lastRefill >>

\* the bucket after the refill step: <<currentTokens, lastRefill>>
refill(r, t) ==
  IF tokensToAdd(r, t) > 0
  THEN << Min(r.config.bucketSize, r.strategyData.tokens + tokensToAdd(r, t)), t >>
  ELSE << r.strategyData.tokens, r.strategyData.lastRefill >>

bucketAdmit_StillDeferred(r, t, trk) ==
  [r EXCEPT !.strategyData = [tokens |-> refill(r, t)[1] - 1, lastRefill |-> refill(r, t)[2]],
            !.count = @ + 1, !.lastEventTime = t, !.expiresAt = t + trk.expireTime]

bucketAdmit(r, t, trk) ==
  [r EXCEPT !.strategyData = [tokens |-> refill(r, t)[1] - 1, lastRefill |-> refill(r, t)[2]],
            !.count = @ + 1, !.lastEventTime = t, !.expiresAt = t + trk.expireTime,
            !.deferred = FALSE, !.scheduledSendAt = Null]

bucketSuppress_DeferInterval(r, t) ==
  [r EXCEPT !.strategyData = [tokens |-> @.tokens, lastRefill |-> refill(r, t)[2]],
            !.deferred = TRUE,
            !.scheduledSendAt = t + r.config.deferInterval]

\* (1 / config.refillRate) * 1000 ms, for the refill rates of this model
bucketSuppress(r, t) ==
  [r EXCEPT !.strategyData = [tokens |-> @.tokens, lastRefill |-> refill(r, t)[2]],
            !.deferred = TRUE,
            !.scheduledSendAt = t + (MsPerSecond \div r.config.refillRate)]

TokenBucketTrack(record, ev, t, trk) ==
  IF record = << >> THEN Outcome("immediate", newBucketRecord(ev, t, trk))
  ELSE IF refill(record[1], t)[1] >= 1
       THEN Outcome("immediate", bucketAdmit(record[1], t, trk))
       ELSE Outcome("deferred", bucketSuppress(record[1], t))

strategyTrack(record, ev, t, trk) ==
  IF trk.strategy = "counter" THEN SimpleCounterTrack(record, ev, t, trk)
  ELSE TokenBucketTrack(record, ev, t, trk)

---------------------------------------------------------------------------
(* EventTracker *)

Emit(event, payload) == [event |-> event, payload |-> payload]

isExpired(store, key, t) == has(store, key) /\ t > get(store, key).expiresAt

detailsChanged(store, key, detailsHash) ==
  has(store, key) /\ get(store, key).detailsHash # detailsHash

\* the record trackEvent hands to the strategy: << >> when storage has none
\* or the stored one is expired or carries another details hash
liveRecord(store, key, detailsHash, t) ==
  IF has(store, key) /\ ~isExpired(store, key, t) /\ ~detailsChanged(store, key, detailsHash)
  THEN << get(store, key) >>
  ELSE << >>

keyLimitReached_Over(record, store, trk) ==
  record = << >> /\ trk.maxKeys > 0 /\ size(store) > trk.maxKeys

keyLimitReached(record, store, trk) ==
  record = << >> /\ trk.maxKeys > 0 /\ size(store) >= trk.maxKeys

\* trackEvent: the value returned (type, reason, data), the notifications
\* emitted in order, the store afterwards, and whether strategy.track ran
trackEvent(store, trk, t, category, id, details) ==
  LET compositeKey == generateCompositeKey(category, id)
      detailsHash == generateDetailsHash(details)
      record == liveRecord(store, compositeKey, detailsHash, t)
      eventData == [compositeKey |-> compositeKey, category |-> category, id |-> id,
                    details |-> details, detailsHash |-> detailsHash]
      res == strategyTrack(record, eventData, t, trk)
  IN IF keyLimitReached(record, store, trk)
     THEN [ type |-> "ignored", reason |-> <<"key_limit_reached">>, data |-> << >>,
            emitted |-> << Emit("ignored", [reason |-> "key_limit_reached", category |-> category,
                                            id |-> id, details |-> details]) >>,
            store |-> store, strategyCalled |-> FALSE ]
     ELSE [ type |-> res.outcome, reason |-> << >>, data |-> << res.record >>,
            emitted |-> << Emit("tracked", res.record), Emit(res.outcome, res.record) >>,
            store |-> set(store, compositeKey, res.record), strategyCalled |-> TRUE ]

\* for (const event of dueEvents) await this.storage.delete(event.key)
RECURSIVE deleteAll(_, _)
deleteAll(store, dueEvents) ==
  IF dueEvents = {} THEN store
  ELSE LET event == CHOOSE e \in dueEvents : TRUE
       IN deleteAll(delete(store, event.key), dueEvents \ {event})

\* processDeferredEvents: the batch returned, the bag of `processed`
\* notifications (one emit per element of the batch) and the store afterwards
processDeferredEvents(store, t) ==
  LET dueEvents == findDueDeferred(store, t)
  IN [ batch |-> dueEvents,
       emitted |-> SetToBag({Emit("processed", e) : e \in dueEvents}),
       store |-> deleteAll(store, dueEvents) ]

mergeConfig_Replace(config, newConfig) == newConfig

\* { ...record.config, ...newConfig }
mergeConfig(config, newConfig) ==
  [f \in DOMAIN config \cup DOMAIN newConfig |->
     IF f \in DOMAIN newConfig THEN newConfig[f] ELSE config[f]]

updateConfig_AllRecords(store, category, id, newConfig) ==
  LET compositeKey == generateCompositeKey(category, id)
      merged == [k \in DOMAIN store |-> [store[k] EXCEPT !.config = mergeConfig(@, newConfig)]]
  IN IF ~has(store, compositeKey)
     THEN [ found |-> FALSE, emitted |-> << >>, store |-> store ]
     ELSE [ found |-> TRUE, emitted |-> << Emit("config_updated", merged[compositeKey]) >>,
            store |-> merged ]

updateConfig(store, category, id, newConfig) ==
  LET compositeKey == generateCompositeKey(category, id)
      merged == [get(store, compositeKey) EXCEPT !.config = mergeConfig(@, newConfig)]
  IN IF ~has(store, compositeKey)
     THEN [ found |-> FALSE, emitted |-> << >>, store |-> store ]
     ELSE [ found |-> TRUE, emitted |-> << Emit("config_updated", merged) >>,
            store |-> set(store, compositeKey, merged) ]

\* the horizon getDeferredEvents gives findDueDeferred: a year of defer intervals
HorizonIntervals == 365

\* getDeferredEvents on a storage without findAllDeferred (the InMemoryAdapter)
getDeferredEvents(store, trk, t) ==
  findDueDeferred(store, t + trk.deferInterval * HorizonIntervals)

---------------------------------------------------------------------------
(* The state machine *)

DEFAULT_BUCKET_SIZE == 10
DEFAULT_REFILL_RATE == 1

Options(strategy, limit, deferInterval, expireTime, maxKeys, bucketSize, refillRate) ==
  [ strategy |-> strategy, limit |-> limit, deferInterval |-> deferInterval,
    expireTime |-> expireTime, maxKeys |-> maxKeys,
    bucketSize |-> bucketSize, refillRate |-> refillRate ]

Workload(ids, details, patches) == [ids |-> ids, details |-> details, patches |-> patches]

Scenario(trk, load) == [tracker |-> trk, workload |-> load]

\* new EventTracker({limit, deferInterval, expireTime, maxKeys}), with the
\* default SimpleCounterStrategy, and what its callers send
CounterScenarios ==
  { \* two streams that defer, come due, expire and are swept
    Scenario(Options("counter", 1, 500, 1000, 0, DEFAULT_BUCKET_SIZE, DEFAULT_REFILL_RATE),
             Workload({"a", "b"}, {DetailsA}, {})),
    \* one slot for two streams; a deferred record expires before it is due
    Scenario(Options("counter", 1, 2000, 1000, 1, DEFAULT_BUCKET_SIZE, DEFAULT_REFILL_RATE),
             Workload({"a", "b"}, {DetailsA, DetailsB}, {})),
    \* one stream whose details vary and whose limit is patched
    Scenario(Options("counter", 2, 500, 1000, 0, DEFAULT_BUCKET_SIZE, DEFAULT_REFILL_RATE),
             Workload({"a"}, Details, {[limit |-> 1], [limit |-> 3]})),
    \* two streams, the limit of one of which is patched
    Scenario(Options("counter", 1, 500, 1000, 0, DEFAULT_BUCKET_SIZE, DEFAULT_REFILL_RATE),
             Workload({"a", "b"}, {DetailsA}, {[limit |-> 2]})) }

\* new EventTracker({strategy: new TokenBucketStrategy(tracker, {bucketSize, refillRate}), ...})
BucketScenarios ==
  { Scenario(Options("bucket", DEFAULT_LIMIT, 500, 1500, 0, 1, 1),
             Workload({"a", "b"}, {DetailsA}, {})),
    Scenario(Options("bucket", DEFAULT_LIMIT, 500, 1000, 1, 2, 2),
             Workload({"a", "b"}, {DetailsA, DetailsB}, {[bucketSize |-> 1]})),
    \* a defer interval far shorter than the time a token takes to come back
    Scenario(Options("bucket", DEFAULT_LIMIT, 1, 1500, 0, 1, 1),
             Workload({"a"}, {DetailsA}, {})),
    \* one stream whose refill rate is raised and whose bucket is shrunk
    Scenario(Options("bucket", DEFAULT_LIMIT, 500, 1500, 0, 3, 1),
             Workload({"a"}, {DetailsA}, {[refillRate |-> 2], [bucketSize |-> 1]})) }

\* the README's Quick Start: {limit: 5, expireTime: 60 * 1000}, one stream
QuickStartScenarios ==
  { Scenario(Options("counter", 5, DEFAULT_DEFER_INTERVAL_MS, 60 * 1000, 0,
                     DEFAULT_BUCKET_SIZE, DEFAULT_REFILL_RATE),
             Workload({"a"}, {DetailsA, DetailsB}, {[limit |-> 3]})) }

\* what `last` keeps of a call: the operation, the composite key it was for,
\* the outcome (trackEvent's type, or its reason when it gives one; whether
\* updateConfig found the record), a number (the count of the returned
\* record, the size of the drained batch)
\* and the size of the batch drained by the operation before it, when that was
\* a processDeferredEvents call
NoCall == [op |-> "none", key |-> "", type |-> "", n |-> 0, drainedBefore |-> 0]

Call(fields) ==
  fields @@ [NoCall EXCEPT !.drainedBefore =
                        IF last.op = "processDeferredEvents" THEN last.n ELSE 0]

\* hist[k].calls: <<outcome, count returned, time>> per call; clean: the calls were
\* all for the same details hash, none found the record expired, and no
\* updateConfig came between them; full: the first call found maxKeys > 0
\* records in storage already
NoHistory == [clean |-> TRUE, full |-> FALSE, calls |-> << >>]
Spoilt == [clean |-> FALSE, full |-> FALSE, calls |-> << >>]

\* the callers that may have a trackEvent call in flight at the same time
Callers == {1, 2}

\* a caller with no call in flight; of a call in flight: pc is the await it
\* is suspended at, t its Date.now(), obj the record object it holds (<< >>
\* for undefined, <<name>> for the object of that name), sz what size()
\* returned, outcome what strategy.track returned, drained whether
\* processDeferredEvents has deleted the record of the call's key since the
\* call was made (history)
Idle ==
  [ pc |-> "idle", category |-> "", id |-> "", details |-> Obj(<< >>),
    t |-> 0, obj |-> << >>, sz |-> Null, outcome |-> "", drained |-> FALSE ]

\* a Redis database without keys
EmptyRedis == [hashes |-> EmptyStore, deferredSet |-> EmptyStore]

\* the notifications an EventTracker emits
EventNames ==
  {"tracked", "immediate", "deferred", "ignored", "processed", "config_updated", "error"}

\* the event of each notification of a sequence
Names(emitted) == [n \in DOMAIN emitted |-> emitted[n].event]

\* EventEmitter.emit, for each of these events in turn: the ones handed to
\* listeners
Deliver(names) == SelectSeq(names, LAMBDA e : e \in listeners)

\* the process runs
Running == ~lifecycle.exited

\* the tracker just constructed: an empty store, nobody calling; the
\* processor is started when onDeferredEventDue is a function
ConstructedWith(scenarios, onDeferredEventDue, listening) ==
  /\ now = T0
  /\ events = EmptyStore
  /\ \E s \in scenarios : tracker = s.tracker /\ workload = s.workload
  /\ last = NoCall
  /\ hist = [k \in AllKeys |-> NoHistory]
  /\ inflight = [p \in Callers |-> Idle]
  /\ objs = EmptyStore
  /\ redis = EmptyRedis
  /\ lastRedis = NoCall
  /\ processor = [handler |-> onDeferredEventDue, timer |-> onDeferredEventDue, ticks |-> << >>]
  /\ purging = TRUE
  /\ listeners \in listening
  /\ lifecycle = [destroyed |-> FALSE, exited |-> FALSE]
  /\ delivered = << >>

\* a tracker without onDeferredEventDue whose every notification is listened to
Constructed(scenarios) == ConstructedWith(scenarios, FALSE, {EventNames})

InitWith(scenarios) == Constructed(scenarios)

Init == InitWith(CounterScenarios \cup BucketScenarios)

\* the most occurrences the model folds into one record, and the most calls
\* it makes on a key that stays in storage
MaxCount == (IF tracker.strategy = "counter" THEN tracker.limit ELSE tracker.bucketSize) + MaxOver

\* hist after an operation that made no trackEvent call: a key that left
\* storage starts over, a key whose config was patched is no longer a plain
\* sequence of trackEvent calls
histAfter(store, patched) ==
  [k \in AllKeys |->
     IF ~has(store, k) THEN NoHistory
     ELSE IF k \in patched THEN Spoilt
     ELSE hist[k]]

\* hist of the tracked key: the call starts a sequence when the key is
\* absent from storage, and spoils it when it finds the stored record
\* expired or stored with another details hash
histTracked(key, detailsHash, res) ==
  LET h == hist[key]
      call == << IF res.reason = << >> THEN res.type ELSE res.reason[1],
                 IF res.data = << >> THEN 0 ELSE res.data[1].count,
                 now >>
  IN IF ~has(events, key)
     THEN [ clean |-> TRUE, calls |-> << call >>,
            full |-> tracker.maxKeys > 0 /\ Cardinality(DOMAIN events) >= tracker.maxKeys ]
     ELSE IF ~h.clean \/ now > events[key].expiresAt
                      \/ events[key].detailsHash # detailsHash
          THEN Spoilt
          ELSE [h EXCEPT !.calls = Append(@, call)]

TrackEvent(category, id, details) ==
  LET key == generateCompositeKey(category, id)
      res == trackEvent(events, tracker, now, category, id, details)
  IN /\ Running
     /\ has(events, key) => get(events, key).count < MaxCount
     /\ Len(hist[key].calls) < MaxCount
     /\ events' = res.store
     /\ delivered' = Deliver(Names(res.emitted))
     /\ last' = Call([ op |-> "trackEvent", key |-> key,
                       type |-> IF res.reason = << >> THEN res.type ELSE res.reason[1],
                       n |-> IF res.data = << >> THEN 0 ELSE res.data[1].count ])
     /\ hist' = [hist EXCEPT ![key] = histTracked(key, generateDetailsHash(details), res)]
     /\ UNCHANGED <<now, tracker, workload, overlapping, sharedStore, background>>

ProcessDeferredEvents ==
  LET res == processDeferredEvents(events, now)
  IN /\ Running
     /\ events' = res.store
     /\ delivered' = Deliver([n \in 1..Cardinality(res.batch) |-> "processed"])
     /\ last' = Call([ op |-> "processDeferredEvents", n |-> Cardinality(res.batch) ])
     /\ hist' = histAfter(res.store, {})
     /\ UNCHANGED <<now, tracker, workload, overlapping, sharedStore, background>>

UpdateConfig(category, id, newConfig) ==
  LET key == generateCompositeKey(category, id)
      res == updateConfig(events, category, id, newConfig)
  IN /\ Running
     /\ events' = res.store
     /\ delivered' = Deliver(Names(res.emitted))
     /\ last' = Call([ op |-> "updateConfig", key |-> key,
                       type |-> IF res.found THEN "true" ELSE "false" ])
     /\ hist' = histAfter(res.store, {key})
     /\ UNCHANGED <<now, tracker, workload, overlapping, sharedStore, background>>

GetDeferredEvents ==
  /\ Running
  /\ delivered' = << >>
  /\ last' = Call([ op |-> "getDeferredEvents",
                    n |-> Cardinality(getDeferredEvents(events, tracker, now)) ])
  /\ UNCHANGED <<now, events, tracker, workload, hist, overlapping, sharedStore, background>>

\* the InMemoryAdapter's sweep timer fires
PurgeExpired ==
  /\ Running
  /\ purging
  /\ events' = purgeExpired(events, now)
  /\ delivered' = << >>
  /\ last' = Call([ op |-> "purgeExpired" ])
  /\ hist' = histAfter(events', {})
  /\ UNCHANGED <<now, tracker, workload, overlapping, sharedStore, background>>

\* time passes
Tick ==
  /\ now + TickMs <= MaxTime
  /\ now' = now + TickMs
  /\ delivered' = << >>
  /\ last' = Call([ op |-> "tick" ])
  /\ UNCHANGED <<events, tracker, workload, hist, overlapping, sharedStore, background>>

Next ==
  \/ \E c \in Categories, i \in workload.ids, d \in workload.details : TrackEvent(c, i, d)
  \/ ProcessDeferredEvents
  \/ \E c \in Categories, i \in workload.ids, p \in workload.patches : UpdateConfig(c, i, p)
  \/ GetDeferredEvents
  \/ PurgeExpired
  \/ Tick

Spec == Init /\ [][Next]_vars

\* the README's Quick Start configuration
SpecQuickStart == InitWith(QuickStartScenarios) /\ [][Next]_vars

TypeOK ==
  /\ now \in T0..MaxTime
  /\ DOMAIN events \subseteq AllKeys
  /\ \A k \in DOMAIN events : events[k].key = k

---------------------------------------------------------------------------
(* Callers that do not await one another.  trackEvent is an async function: *)
(* it runs up to its next `await` in one step, and a step of another call   *)
(* may come between two of its steps.  The InMemoryAdapter hands out the    *)
(* record object it stores, so the record a call holds is the stored one    *)
(* until a set puts another object under its key.                           *)
(*                                                                         *)
(* An object is named by where it is: the object `events` holds under a    *)
(* key by that key, an object only calls hold by the first caller holding  *)
(* it.                                                                     *)

Own(p) == "held:" \o ToString(p)

\* the objects the calls hold
held(calls) == UNION {{calls[p].obj[i] : i \in DOMAIN calls[p].obj} : p \in Callers}

holders(calls, n) == {p \in Callers : calls[p].obj = << n >>}

\* the name of the object called n in this step, once the step is over
canon(calls, n) ==
  IF n \in AllKeys THEN n
  ELSE Own(CHOOSE p \in holders(calls, n) : \A q \in holders(calls, n) : p <= q)

\* the objects outside the Map that a call still holds (the others are
\* garbage), and the calls, under the names the objects have now
collect(o, calls) ==
  LET kept == DOMAIN o \cap held(calls)
  IN [ objs |-> [m \in {canon(calls, n) : n \in kept} |->
                   o[CHOOSE n \in kept : canon(calls, n) = m]],
       calls |-> [p \in Callers |->
                   IF calls[p].obj = << >> THEN calls[p]
                   ELSE [calls[p] EXCEPT !.obj = << canon(calls, @[1]) >>]] ]

\* the record the object called n is now
deref(n) == IF n \in AllKeys THEN events[n] ELSE objs[n]

CallKey(call) == generateCompositeKey(call.category, call.id)

\* lines 83-87: the call is made; it runs to `await this.storage.get(...)`.
\* Callers are alike: the one who calls is the first with no call in flight.
Begin(p, category, id, details) ==
  LET key == generateCompositeKey(category, id)
  IN /\ inflight[p].pc = "idle"
     /\ \A q \in Callers : q < p => inflight[q].pc # "idle"
     /\ has(events, key) => get(events, key).count < MaxCount
     /\ inflight' = [inflight EXCEPT ![p] =
          [Idle EXCEPT !.pc = "get", !.category = category, !.id = id,
                       !.details = details, !.t = now,
                       !.obj = IF has(events, key) THEN << key >> ELSE << >>]]
     /\ UNCHANGED <<now, events, tracker, workload, last, hist, objs, sharedStore, background, delivered>>

\* line 102: strategy.track runs on the record the call holds, up to its
\* return: a record it creates is a new object, an existing one is changed
\* in place
Track(p, record) ==
  LET call == inflight[p]
      eventData == [compositeKey |-> CallKey(call), category |-> call.category,
                    id |-> call.id, details |-> call.details,
                    detailsHash |-> generateDetailsHash(call.details)]
      res == strategyTrack(IF record = << >> THEN << >> ELSE << deref(record[1]) >>,
                           eventData, now, tracker)
      n == IF record = << >> THEN "new" ELSE record[1]
      calls == [inflight EXCEPT ![p] =
                  [call EXCEPT !.pc = "track", !.obj = << n >>, !.outcome = res.outcome]]
      after == collect(IF n \in AllKeys THEN objs ELSE set(objs, n, res.record), calls)
  IN /\ events' = IF n \in AllKeys THEN set(events, n, res.record) ELSE events
     /\ objs' = after.objs
     /\ inflight' = after.calls

\* lines 89-96 (and 101-102): after storage.get; the call goes on to
\* `await this.storage.size()` or to `await this.strategy.track(...)`
AfterGet(p) ==
  LET call == inflight[p]
      stale == /\ call.obj # << >>
               /\ \/ call.t > deref(call.obj[1]).expiresAt
                  \/ deref(call.obj[1]).detailsHash # generateDetailsHash(call.details)
      record == IF stale THEN << >> ELSE call.obj
      sizing == collect(objs, [inflight EXCEPT ![p] =
                  [call EXCEPT !.pc = "size", !.obj = << >>, !.sz = size(events)]])
  IN /\ call.pc = "get"
     /\ IF record = << >> /\ tracker.maxKeys > 0
        THEN /\ inflight' = sizing.calls
             /\ objs' = sizing.objs
             /\ events' = events
        ELSE Track(p, record)
     /\ UNCHANGED <<now, tracker, workload, last, hist, sharedStore, background, delivered>>

\* lines 96-102: after storage.size(); the call is refused, or goes on to
\* `await this.strategy.track(...)`
AfterSize(p) ==
  LET call == inflight[p]
  IN /\ call.pc = "size"
     /\ IF call.sz >= tracker.maxKeys
        THEN /\ inflight' = [inflight EXCEPT ![p] = Idle]
             /\ last' = Call([ op |-> "trackEvent", key |-> CallKey(call),
                               type |-> "key_limit_reached" ])
             /\ UNCHANGED <<events, objs>>
        ELSE /\ Track(p, << >>)
             /\ last' = last
     /\ UNCHANGED <<now, tracker, workload, hist, sharedStore, background, delivered>>

\* line 104: after strategy.track; storage.set puts the call's object under
\* its key, where another object may be, and the call waits for it
AfterTrack(p) ==
  LET call == inflight[p]
      key == CallKey(call)
      n == call.obj[1]
      \* the calls that hold the object the Map gives up, and the ones that
      \* hold the object it takes
      moved == [q \in Callers |->
                  IF inflight[q].obj = << key >> THEN [inflight[q] EXCEPT !.obj = << "old" >>]
                  ELSE IF inflight[q].obj = << n >> THEN [inflight[q] EXCEPT !.obj = << key >>]
                  ELSE inflight[q]]
      calls == [moved EXCEPT ![p].pc = "set"]
      out == IF has(events, key) THEN set(objs, "old", events[key]) ELSE objs
      after == collect([m \in DOMAIN out \ {n} |-> out[m]], calls)
  IN /\ call.pc = "track"
     /\ IF n = key
        THEN /\ inflight' = [inflight EXCEPT ![p].pc = "set"]
             /\ UNCHANGED <<events, objs>>
        ELSE /\ events' = set(events, key, objs[n])
             /\ inflight' = after.calls
             /\ objs' = after.objs
     /\ UNCHANGED <<now, tracker, workload, last, hist, sharedStore, background, delivered>>

\* lines 105-108: after storage.set; the notifications and the return
AfterSet(p) ==
  LET call == inflight[p]
      after == collect(objs, [inflight EXCEPT ![p] = Idle])
  IN /\ call.pc = "set"
     /\ inflight' = after.calls
     /\ objs' = after.objs
     /\ last' = Call([ op |-> "trackEvent", key |-> CallKey(call),
                       type |-> call.outcome, n |-> deref(call.obj[1]).count ])
     /\ UNCHANGED <<now, events, tracker, workload, hist, sharedStore, background, delivered>>

\* the clock of the runs with overlapping calls stops here
MaxOverlapTime == 1500

TickOverlap == now + TickMs <= MaxOverlapTime /\ Tick

\* a tracker with room for one key and two streams; a tracker with one
\* stream whose details vary and whose records expire early
OverlapScenarios ==
  { Scenario(Options("counter", 1, 500, 1000, 1, DEFAULT_BUCKET_SIZE, DEFAULT_REFILL_RATE),
             Workload({"a", "b"}, {DetailsA}, {})),
    Scenario(Options("counter", 1, 500, 250, 0, DEFAULT_BUCKET_SIZE, DEFAULT_REFILL_RATE),
             Workload({"a"}, {DetailsA, DetailsB}, {})) }

NextOverlap ==
  \/ \E p \in Callers, c \in Categories, i \in workload.ids, d \in workload.details :
       Begin(p, c, i, d)
  \/ \E p \in Callers : AfterGet(p)
  \/ \E p \in Callers : AfterSize(p)
  \/ \E p \in Callers : AfterTrack(p)
  \/ \E p \in Callers : AfterSet(p)
  \/ TickOverlap

SpecOverlap == Constructed(OverlapScenarios) /\ [][NextOverlap]_vars

\* processDeferredEvents while trackEvent calls are in flight: the due
\* records leave the Map, and the calls that got one of them from
\* storage.get hold it still
DrainOverlap ==
  LET dueEvents == findDueDeferred(events, now)
      dueKeys == {r.key : r \in dueEvents}
      out(k) == "out:" \o k
      seen == [q \in Callers |->
                 IF inflight[q].pc # "idle" /\ CallKey(inflight[q]) \in dueKeys
                 THEN [inflight[q] EXCEPT !.drained = TRUE] ELSE inflight[q]]
      calls == [q \in Callers |->
                  IF seen[q].obj # << >> /\ seen[q].obj[1] \in dueKeys
                  THEN [seen[q] EXCEPT !.obj = << out(@[1]) >>] ELSE seen[q]]
      moved == [m \in DOMAIN objs \cup {out(k) : k \in dueKeys} |->
                  IF m \in DOMAIN objs THEN objs[m]
                  ELSE events[CHOOSE k \in dueKeys : out(k) = m]]
      after == collect(moved, calls)
  IN /\ events' = deleteAll(events, dueEvents)
     /\ inflight' = after.calls
     /\ objs' = after.objs
     /\ last' = Call([ op |-> "processDeferredEvents", n |-> Cardinality(dueEvents) ])
     /\ UNCHANGED <<now, tracker, workload, hist, sharedStore, background, delivered>>

\* one stream whose second occurrence is deferred and comes due
DrainOverlapScenarios ==
  { Scenario(Options("counter", 1, 500, 1000, 1, DEFAULT_BUCKET_SIZE, DEFAULT_REFILL_RATE),
             Workload({"a"}, {DetailsA}, {})) }

NextOverlapDrain ==
  \/ \E p \in Callers, c \in Categories, i \in workload.ids, d \in workload.details :
       Begin(p, c, i, d)
  \/ \E p \in Callers : AfterGet(p)
  \/ \E p \in Callers : AfterSize(p)
  \/ \E p \in Callers : AfterTrack(p)
  \/ \E p \in Callers : AfterSet(p)
  \/ DrainOverlap
  \/ TickOverlap

SpecOverlapDrain == Constructed(DrainOverlapScenarios) /\ [][NextOverlapDrain]_vars

---------------------------------------------------------------------------
(* RedisAdapter.  The database holds one hash per record, named by the key  *)
(* prefix and the composite key, each with the second it expires at, and    *)
(* the sorted set of the deferred keys with scheduledSendAt as score.       *)
(* A hash maps field names to the strings hSet wrote.  How the client       *)
(* writes null and nested objects is not in the source: null is taken to    *)
(* be written as the empty string, objects to be kept as they are (get      *)
(* reads neither back).                                                     *)

KEY_PREFIX == "event-tracker:"

_getRecordKey(key) == KEY_PREFIX \o key

\* the largest number a record of this model holds
MaxStamp == MaxTime + 2 * MsPerSecond

\* JSON.stringify of a details object: its properties in insertion order
stringify(details) ==
  "{" \o StringifyFields(details.fields,
                         [n \in DOMAIN details.fields |-> details.fields[n][1]]) \o "}"

\* JSON.parse of what stringify wrote
parse(text) == CHOOSE d \in Details : stringify(d) = text

\* parseInt(s, 10) of the decimal strings hSet writes for numbers
parseInt(s) == CHOOSE n \in 0..MaxStamp : ToString(n) = s

\* the database as a client sees it at time t: Redis has dropped the hashes
\* whose EXPIREAT second has come
evict(db, t) ==
  [db EXCEPT !.hashes =
     [name \in {h \in DOMAIN db.hashes : t < db.hashes[h].expireAt * MsPerSecond} |->
        db.hashes[name]]]

\* Math.ceil(ms / 1000)
ceilSeconds(ms) == (ms + MsPerSecond - 1) \div MsPerSecond

\* RedisAdapter.get: << >> for undefined, else the record built from the
\* ten fields get reads
redisGet(db, key, t) ==
  LET name == _getRecordKey(key)
      live == evict(db, t).hashes
      data == live[name].fields
  IN IF name \notin DOMAIN live THEN << >>
     ELSE << [ key |-> data.key, category |-> data.category, id |-> data.id,
               details |-> parse(data.details), detailsHash |-> data.detailsHash,
               count |-> parseInt(data.count),
               lastEventTime |-> parseInt(data.lastEventTime),
               expiresAt |-> parseInt(data.expiresAt),
               deferred |-> (data.deferred = "true"),
               scheduledSendAt |-> IF data.scheduledSendAt # ""
                                   THEN parseInt(data.scheduledSendAt) ELSE Null ] >>

\* the value hSet stores for a field of flatRecord
flatValue(record, f) ==
  IF f = "details" THEN stringify(record.details)
  ELSE IF f = "deferred" THEN (IF record.deferred THEN "true" ELSE "false")
  ELSE IF f \in {"count", "lastEventTime", "expiresAt"} THEN ToString(record[f])
  ELSE IF f = "scheduledSendAt"
       THEN (IF record[f] = Null THEN "" ELSE ToString(record[f]))
  ELSE record[f]

\* RedisAdapter.set: one transaction of hSet (the fields of the hash that the
\* record does not have stay), expireAt, and zAdd or zRem
redisSet(db, key, record, t) ==
  LET name == _getRecordKey(key)
      live == evict(db, t)
      before == IF name \in DOMAIN live.hashes THEN live.hashes[name].fields ELSE EmptyStore
      fields == [f \in DOMAIN before \cup DOMAIN record |->
                   IF f \in DOMAIN record THEN flatValue(record, f) ELSE before[f]]
  IN [ hashes |-> set(live.hashes, name,
                      [fields |-> fields, expireAt |-> ceilSeconds(record.expiresAt)]),
       deferredSet |-> IF record.deferred /\ Truthy(record.scheduledSendAt)
                       THEN set(live.deferredSet, record.key, record.scheduledSendAt)
                       ELSE delete(live.deferredSet, record.key) ]

redisDelete(db, key, t) ==
  [ hashes |-> delete(evict(db, t).hashes, _getRecordKey(key)),
    deferredSet |-> delete(db.deferredSet, key) ]

\* RedisAdapter.size: the keys with the prefix, less the deferred set's own
redisSize(db, t) ==
  LET deferredSetExists == DOMAIN db.deferredSet # {}
      count == Cardinality(DOMAIN evict(db, t).hashes) + (IF deferredSetExists THEN 1 ELSE 0)
  IN IF deferredSetExists THEN count - 1 ELSE count

\* RedisAdapter.findDueDeferred: the records of the keys scored 0..timestamp
\* that get still finds
redisFindDueDeferred(db, timestamp, t) ==
  LET dueKeys == {k \in DOMAIN db.deferredSet :
                    db.deferredSet[k] >= 0 /\ db.deferredSet[k] <= timestamp}
  IN {redisGet(db, k, t)[1] : k \in {j \in dueKeys : redisGet(db, j, t) # << >>}}

\* strategy.track throws a TypeError: the counter strategy reads
\* record.config.limit of a record that is not deferred, the token bucket
\* destructures record.strategyData
strategyThrows(record, trk) ==
  /\ record # << >>
  /\ IF trk.strategy = "counter"
     THEN ~record[1].deferred /\ "config" \notin DOMAIN record[1]
     ELSE "strategyData" \notin DOMAIN record[1]

\* EventTracker.trackEvent of a tracker whose storage is a RedisAdapter: the
\* value returned or the error thrown (type, data), the notifications, and
\* the database afterwards
trackEventShared(db, trk, t, category, id, details) ==
  LET compositeKey == generateCompositeKey(category, id)
      detailsHash == generateDetailsHash(details)
      found == redisGet(db, compositeKey, t)
      record == IF found # << >> /\ (t > found[1].expiresAt \/ found[1].detailsHash # detailsHash)
                THEN << >> ELSE found
      eventData == [compositeKey |-> compositeKey, category |-> category, id |-> id,
                    details |-> details, detailsHash |-> detailsHash]
      res == strategyTrack(record, eventData, t, trk)
  IN IF record = << >> /\ trk.maxKeys > 0 /\ redisSize(db, t) >= trk.maxKeys
     THEN [ type |-> "ignored", reason |-> <<"key_limit_reached">>, data |-> << >>,
            emitted |-> << Emit("ignored", [reason |-> "key_limit_reached", category |-> category,
                                            id |-> id, details |-> details]) >>,
            db |-> db ]
     ELSE IF strategyThrows(record, trk)
     THEN [ type |-> "TypeError", reason |-> << >>, data |-> << >>, emitted |-> << >>,
            db |-> db ]
     ELSE [ type |-> res.outcome, reason |-> << >>, data |-> << res.record >>,
            emitted |-> << Emit("tracked", res.record), Emit(res.outcome, res.record) >>,
            db |-> redisSet(db, compositeKey, res.record, t) ]

RECURSIVE redisDeleteAll(_, _, _)
redisDeleteAll(db, dueEvents, t) ==
  IF dueEvents = {} THEN db
  ELSE LET event == CHOOSE e \in dueEvents : TRUE
       IN redisDeleteAll(redisDelete(db, event.key, t), dueEvents \ {event}, t)

\* EventTracker.processDeferredEvents of a tracker whose storage is a RedisAdapter
processDeferredEventsShared(db, t) ==
  LET dueEvents == redisFindDueDeferred(db, t, t)
  IN [ batch |-> dueEvents, db |-> redisDeleteAll(db, dueEvents, t) ]

\* the Redis example: two tracker instances with limit 3 on one store, the
\* first with deferInterval 2000, the second with the default
RedisScenarios ==
  { Scenario(Options("counter", 3, 2000, 1000, 0, DEFAULT_BUCKET_SIZE, DEFAULT_REFILL_RATE),
             Workload({"a"}, {DetailsA, DetailsB}, {})),
    Scenario(Options("bucket", DEFAULT_LIMIT, 500, 1000, 0, 2, 1),
             Workload({"a"}, {DetailsA}, {})) }

\* new EventTracker({storage, limit}) on the same store
tracker2 == [tracker EXCEPT !.deferInterval = DEFAULT_DEFER_INTERVAL_MS]

\* the same trackEvent call made through an instance `trk` on both stores
BothTrackEvent(trk, category, id, details) ==
  LET key == generateCompositeKey(category, id)
      local == trackEvent(events, trk, now, category, id, details)
      shared == trackEventShared(redis, trk, now, category, id, details)
  IN /\ has(events, key) => get(events, key).count < MaxCount
     /\ events' = local.store
     /\ redis' = shared.db
     /\ last' = Call([ op |-> "trackEvent", key |-> key, type |-> local.type,
                       n |-> IF local.data = << >> THEN 0 ELSE local.data[1].count ])
     /\ lastRedis' = Call([ op |-> "trackEvent", key |-> key, type |-> shared.type,
                            n |-> IF shared.data = << >> THEN 0 ELSE shared.data[1].count ])
     /\ UNCHANGED <<now, tracker, workload, hist, overlapping, background, delivered>>

\* the same processDeferredEvents call on both stores
BothProcessDeferredEvents ==
  LET local == processDeferredEvents(events, now)
      shared == processDeferredEventsShared(redis, now)
  IN /\ events' = local.store
     /\ redis' = shared.db
     /\ last' = Call([ op |-> "processDeferredEvents", n |-> Cardinality(local.batch) ])
     /\ lastRedis' = Call([ op |-> "processDeferredEvents", n |-> Cardinality(shared.batch) ])
     /\ UNCHANGED <<now, tracker, workload, hist, overlapping, background, delivered>>

NextBoth ==
  \/ \E trk \in {tracker, tracker2}, c \in Categories, i \in workload.ids,
        d \in workload.details : BothTrackEvent(trk, c, i, d)
  \/ BothProcessDeferredEvents
  \/ Tick

SpecRedis == Constructed(RedisScenarios) /\ [][NextBoth]_vars

---------------------------------------------------------------------------
(* Callers that do not await one another, on a RedisAdapter.  RedisAdapter  *)
(* .get builds a new object at every call, so each call in flight holds a   *)
(* copy of its own (objs[Own(p)]); a storage command takes effect when the   *)
(* adapter sends it.                                                        *)

\* the objects calls hold, without the copy of caller p
dropCopy(o, p) == [m \in DOMAIN o \ {Own(p)} |-> o[m]]

\* lines 83-87: the call is made and runs to `await this.storage.get(...)`
BeginShared(p, category, id, details) ==
  LET key == generateCompositeKey(category, id)
      found == redisGet(redis, key, now)
  IN /\ inflight[p].pc = "idle"
     /\ \A q \in Callers : q < p => inflight[q].pc # "idle"
     /\ found # << >> => found[1].count < MaxCount
     /\ inflight' = [inflight EXCEPT ![p] =
          [Idle EXCEPT !.pc = "get", !.category = category, !.id = id,
                       !.details = details, !.t = now,
                       !.obj = IF found = << >> THEN << >> ELSE << Own(p) >>]]
     /\ objs' = IF found = << >> THEN objs ELSE set(objs, Own(p), found[1])
     /\ UNCHANGED <<now, events, tracker, workload, last, hist, sharedStore, background, delivered>>

\* line 102: strategy.track runs on the call's copy; it throws when the copy
\* lacks what the strategy reads, and the call rejects
TrackShared(p, record) ==
  LET call == inflight[p]
      eventData == [compositeKey |-> CallKey(call), category |-> call.category,
                    id |-> call.id, details |-> call.details,
                    detailsHash |-> generateDetailsHash(call.details)]
      copy == IF record = << >> THEN << >> ELSE << objs[record[1]] >>
      res == strategyTrack(copy, eventData, now, tracker)
  IN IF strategyThrows(copy, tracker)
     THEN /\ inflight' = [inflight EXCEPT ![p] = Idle]
          /\ objs' = dropCopy(objs, p)
          /\ lastRedis' = Call([ op |-> "trackEvent", key |-> CallKey(call),
                                 type |-> "TypeError" ])
     ELSE /\ inflight' = [inflight EXCEPT ![p] =
               [call EXCEPT !.pc = "track", !.obj = << Own(p) >>, !.outcome = res.outcome]]
          /\ objs' = set(objs, Own(p), res.record)
          /\ lastRedis' = lastRedis

\* lines 89-102: after storage.get
AfterGetShared(p) ==
  LET call == inflight[p]
      stale == /\ call.obj # << >>
               /\ \/ call.t > objs[call.obj[1]].expiresAt
                  \/ objs[call.obj[1]].detailsHash # generateDetailsHash(call.details)
      record == IF stale THEN << >> ELSE call.obj
  IN /\ call.pc = "get"
     /\ IF record = << >> /\ tracker.maxKeys > 0
        THEN /\ inflight' = [inflight EXCEPT ![p] =
                  [call EXCEPT !.pc = "size", !.obj = << >>, !.sz = redisSize(redis, now)]]
             /\ objs' = dropCopy(objs, p)
             /\ lastRedis' = lastRedis
        ELSE TrackShared(p, record)
     /\ UNCHANGED <<now, events, tracker, workload, last, hist, redis, background, delivered>>

\* lines 96-102: after storage.size()
AfterSizeShared(p) ==
  LET call == inflight[p]
  IN /\ call.pc = "size"
     /\ IF call.sz >= tracker.maxKeys
        THEN /\ inflight' = [inflight EXCEPT ![p] = Idle]
             /\ lastRedis' = Call([ op |-> "trackEvent", key |-> CallKey(call),
                                    type |-> "key_limit_reached" ])
             /\ objs' = objs
        ELSE TrackShared(p, << >>)
     /\ UNCHANGED <<now, events, tracker, workload, last, hist, redis, background, delivered>>

\* line 104: after strategy.track; storage.set writes the call's copy
AfterTrackShared(p) ==
  LET call == inflight[p]
  IN /\ call.pc = "track"
     /\ redis' = redisSet(redis, CallKey(call), objs[Own(p)], now)
     /\ inflight' = [inflight EXCEPT ![p].pc = "set"]
     /\ UNCHANGED <<now, events, tracker, workload, last, hist, objs, lastRedis, background, delivered>>

\* lines 105-108: after storage.set; the return
AfterSetShared(p) ==
  LET call == inflight[p]
  IN /\ call.pc = "set"
     /\ inflight' = [inflight EXCEPT ![p] = Idle]
     /\ objs' = dropCopy(objs, p)
     /\ lastRedis' = Call([ op |-> "trackEvent", key |-> CallKey(call),
                            type |-> call.outcome, n |-> objs[Own(p)].count ])
     /\ UNCHANGED <<now, events, tracker, workload, last, hist, redis, background, delivered>>

\* one stream on a store with room for one key; a tracker that defers at
\* once (limit 0), whose Deferred records the strategy reads no config of
SharedOverlapScenarios ==
  { Scenario(Options("counter", 1, 500, 1000, 1, DEFAULT_BUCKET_SIZE, DEFAULT_REFILL_RATE),
             Workload({"a", "b"}, {DetailsA}, {})),
    Scenario(Options("counter", 0, 500, 1000, 0, DEFAULT_BUCKET_SIZE, DEFAULT_REFILL_RATE),
             Workload({"a"}, {DetailsA}, {})) }

NextSharedOverlap ==
  \/ \E p \in Callers, c \in Categories, i \in workload.ids, d \in workload.details :
       BeginShared(p, c, i, d)
  \/ \E p \in Callers : AfterGetShared(p)
  \/ \E p \in Callers : AfterSizeShared(p)
  \/ \E p \in Callers : AfterTrackShared(p)
  \/ \E p \in Callers : AfterSetShared(p)
  \/ TickOverlap

SpecSharedOverlap == Constructed(SharedOverlapScenarios) /\ [][NextSharedOverlap]_vars

---------------------------------------------------------------------------
(* Storage calls that fail.  The adapter's promise rejects; the operation   *)
(* that awaits it throws at that await.  `at` names the storage call that   *)
(* fails; a call fails only if the operation gets to it.  A record the      *)
(* strategy or updateConfig has changed before the failing set is the       *)
(* object the adapter handed out, and stays changed.                        *)

\* the notifications trackEvent or updateConfig has emitted when the storage
\* call `at` fails: both emit after their last await only
emittedBefore_Early(at, res) ==
  IF at = "set" THEN << Emit("tracked", res.record) >> ELSE << >>

emittedBefore(at, res) == << >>

trackEventFails(store, trk, t, category, id, details, at) ==
  LET compositeKey == generateCompositeKey(category, id)
      detailsHash == generateDetailsHash(details)
      record == liveRecord(store, compositeKey, detailsHash, t)
      eventData == [compositeKey |-> compositeKey, category |-> category, id |-> id,
                    details |-> details, detailsHash |-> detailsHash]
      res == strategyTrack(record, eventData, t, trk)
  IN [ reached |-> CASE at = "get" -> TRUE
                     [] at = "size" -> record = << >> /\ trk.maxKeys > 0
                     [] at = "set" -> ~keyLimitReached(record, store, trk),
       type |-> "error",
       emitted |-> emittedBefore(at, res),
       store |-> IF at = "set" /\ record # << >>
                 THEN set(store, compositeKey, res.record) ELSE store ]

updateConfigFails(store, category, id, newConfig, at) ==
  LET compositeKey == generateCompositeKey(category, id)
      merged == IF has(store, compositeKey)
                THEN [get(store, compositeKey) EXCEPT !.config = mergeConfig(@, newConfig)]
                ELSE << >>
  IN [ reached |-> CASE at = "get" -> TRUE
                     [] at = "set" -> has(store, compositeKey),
       type |-> "error",
       emitted |-> emittedBefore(at, [record |-> merged]),
       store |-> IF at = "set" THEN set(store, compositeKey, merged) ELSE store ]

deleteKeys_Kept(store, keys) == store

\* storage.delete for each of these keys
deleteKeys(store, keys) == [k \in DOMAIN store \ keys |-> store[k]]

\* processDeferredEvents when findDueDeferred fails, or when a delete fails
\* after the records of the keys `done` were deleted and announced
processDeferredEventsFails(store, t, at, done) ==
  LET dueKeys == {r.key : r \in findDueDeferred(store, t)}
  IN [ reached |-> CASE at = "findDueDeferred" -> done = {}
                     [] at = "delete" -> done \subseteq dueKeys /\ done # dueKeys,
       type |-> "error",
       emitted |-> [n \in 1..Cardinality(done \cap dueKeys) |->
                     Emit("processed", store[CHOOSE k \in done \cap dueKeys : TRUE])],
       store |-> deleteKeys(store, done) ]

TrackEventFails(category, id, details, at) ==
  LET key == generateCompositeKey(category, id)
      res == trackEventFails(events, tracker, now, category, id, details, at)
  IN /\ Running
     /\ res.reached
     /\ has(events, key) => get(events, key).count < MaxCount
     /\ events' = res.store
     /\ delivered' = Deliver(Names(res.emitted))
     /\ last' = Call([ op |-> "trackEvent", key |-> key, type |-> res.type ])
     /\ hist' = histAfter(res.store, {key})
     /\ UNCHANGED <<now, tracker, workload, overlapping, sharedStore, background>>

UpdateConfigFails(category, id, newConfig, at) ==
  LET key == generateCompositeKey(category, id)
      res == updateConfigFails(events, category, id, newConfig, at)
  IN /\ Running
     /\ res.reached
     /\ events' = res.store
     /\ delivered' = Deliver(Names(res.emitted))
     /\ last' = Call([ op |-> "updateConfig", key |-> key, type |-> res.type ])
     /\ hist' = histAfter(res.store, {key})
     /\ UNCHANGED <<now, tracker, workload, overlapping, sharedStore, background>>

ProcessDeferredEventsFails(at, done) ==
  LET res == processDeferredEventsFails(events, now, at, done)
  IN /\ Running
     /\ res.reached
     /\ events' = res.store
     /\ delivered' = Deliver(Names(res.emitted))
     /\ last' = Call([ op |-> "processDeferredEvents", type |-> res.type,
                       n |-> Cardinality(done) ])
     /\ hist' = histAfter(res.store, {})
     /\ UNCHANGED <<now, tracker, workload, overlapping, sharedStore, background>>

---------------------------------------------------------------------------
(* The background processor (startProcessor) and destroy.  A tick is the    *)
(* interval's async callback: it runs to `await findDueDeferred`, then      *)
(* through the loop of processDeferredEvents to the handler's call, then    *)
(* to its end, and operations of callers may come between these steps.      *)

\* ticks that can be in progress at once
MaxTicksInFlight == 1

\* the clock stops here while the processor runs
MaxRuntimeTime == 2000

Without(seq, i) == SubSeq(seq, 1, i - 1) \o SubSeq(seq, i + 1, Len(seq))

\* somebody listens to `error`; if nobody does, EventEmitter.emit('error')
\* throws instead, here inside the interval's async callback: the rejection
\* is unhandled, and the Node process exits or goes on, as it is set up
Heard == "error" \in listeners

\* this.removeAllListeners()
removeAllListeners_Kept(ls) == ls

removeAllListeners(ls) == {}

\* lines 59-61, to `await this.storage.findDueDeferred(now)`: the timer
\* fires; `failed` when the storage call rejects
ProcessorFires(failed) ==
  /\ Running
  /\ processor.timer
  /\ Len(processor.ticks) < MaxTicksInFlight
  /\ processor' = [processor EXCEPT !.ticks = Append(@,
       [ pc |-> "find", failed |-> failed,
         due |-> IF failed THEN {} ELSE findDueDeferred(events, now) ])]
  /\ delivered' = << >>
  /\ last' = Call([ op |-> "processor:find" ])
  /\ UNCHANGED <<now, events, tracker, workload, hist, overlapping, sharedStore,
                 purging, listeners, lifecycle>>

\* lines 114-118 and 61-66: the tick deletes and announces the due records
\* (those of the keys `done`, if a delete fails then), and calls the handler
\* when the batch is not empty; a failure goes to the catch, which emits
\* `error`; `exits` when the process exits on the unhandled rejection
ProcessorDrains(i, done, exits) ==
  LET tick == processor.ticks[i]
      dueKeys == {r.key : r \in tick.due}
      failing == tick.failed \/ done # dueKeys
  IN /\ Running
     /\ i \in DOMAIN processor.ticks
     /\ tick.pc = "find"
     /\ done \subseteq dueKeys
     /\ exits => failing /\ ~Heard
     /\ events' = deleteKeys(events, done)
     /\ delivered' = Deliver([n \in 1..Cardinality(done) |-> "processed"]
                             \o (IF failing THEN << "error" >> ELSE << >>))
     /\ processor' = IF ~failing /\ tick.due # {} /\ processor.handler
                     THEN [processor EXCEPT !.ticks[i].pc = "handler"]
                     ELSE [processor EXCEPT !.ticks = Without(@, i)]
     /\ lifecycle' = [lifecycle EXCEPT !.exited = exits]
     /\ last' = Call([ op |-> "processor:drain", n |-> Cardinality(done),
                       type |-> IF failing THEN "error" ELSE "drained" ])
     /\ hist' = histAfter(events', {})
     /\ UNCHANGED <<now, tracker, workload, overlapping, sharedStore, purging, listeners>>

\* lines 63-66: onDeferredEventDue settles; `ok` when it resolves
ProcessorHandled(i, ok, exits) ==
  LET tick == processor.ticks[i]
  IN /\ Running
     /\ i \in DOMAIN processor.ticks
     /\ tick.pc = "handler"
     /\ exits => ~ok /\ ~Heard
     /\ delivered' = Deliver(IF ok THEN << >> ELSE << "error" >>)
     /\ processor' = [processor EXCEPT !.ticks = Without(@, i)]
     /\ lifecycle' = [lifecycle EXCEPT !.exited = exits]
     /\ last' = Call([ op |-> "processor:handler", n |-> Cardinality(tick.due),
                       type |-> IF ok THEN "handled" ELSE "error" ])
     /\ UNCHANGED <<now, events, tracker, workload, hist, overlapping, sharedStore,
                    purging, listeners>>

\* destroy(): clearInterval, storage.destroy() (which clears the purge
\* timer), removeAllListeners
Destroy ==
  /\ Running
  /\ ~lifecycle.destroyed
  /\ processor' = [processor EXCEPT !.timer = FALSE]
  /\ purging' = FALSE
  /\ listeners' = removeAllListeners(listeners)
  /\ lifecycle' = [lifecycle EXCEPT !.destroyed = TRUE]
  /\ delivered' = << >>
  /\ last' = Call([ op |-> "destroy" ])
  /\ UNCHANGED <<now, events, tracker, workload, hist, overlapping, sharedStore>>

\* the storage calls of each operation
StorageCalls ==
  [ trackEvent |-> {"get", "size", "set"},
    updateConfig |-> {"get", "set"},
    processDeferredEvents |-> {"findDueDeferred", "delete"} ]

\* new EventTracker({limit: 1, deferInterval, expireTime, maxKeys: 1,
\* onDeferredEventDue, processingInterval}), with or without a listener for
\* `error`
RuntimeScenarios ==
  { Scenario(Options("counter", 1, 500, 1000, 1, DEFAULT_BUCKET_SIZE, DEFAULT_REFILL_RATE),
             Workload({"a"}, {DetailsA}, {[limit |-> 2]})) }

NextRuntime ==
  \/ \E c \in Categories, i \in workload.ids, d \in workload.details : TrackEvent(c, i, d)
  \/ ProcessDeferredEvents
  \/ \E c \in Categories, i \in workload.ids, p \in workload.patches : UpdateConfig(c, i, p)
  \/ GetDeferredEvents
  \/ PurgeExpired
  \/ Tick /\ now' <= MaxRuntimeTime
  \/ \E c \in Categories, i \in workload.ids, d \in workload.details,
        at \in StorageCalls.trackEvent : TrackEventFails(c, i, d, at)
  \/ \E c \in Categories, i \in workload.ids, p \in workload.patches,
        at \in StorageCalls.updateConfig : UpdateConfigFails(c, i, p, at)
  \/ \E at \in StorageCalls.processDeferredEvents, done \in SUBSET AllKeys :
       ProcessDeferredEventsFails(at, done)
  \/ \E failed \in BOOLEAN : ProcessorFires(failed)
  \/ \E i \in 1..MaxTicksInFlight, done \in SUBSET AllKeys, exits \in BOOLEAN :
       ProcessorDrains(i, done, exits)
  \/ \E i \in 1..MaxTicksInFlight, ok \in BOOLEAN, exits \in BOOLEAN :
       ProcessorHandled(i, ok, exits)
  \/ Destroy

SpecRuntime ==
  /\ ConstructedWith(RuntimeScenarios, TRUE, {EventNames, EventNames \ {"error"}})
  /\ [][NextRuntime]_vars

---------------------------------------------------------------------------
(* Claims *)

Counter == tracker.strategy = "counter"

\* the outcome the counter strategy owes the n-th call of a sequence
ExpectedOutcome(n, limit) ==
  IF n <= limit THEN "immediate" ELSE IF n = limit + 1 THEN "deferred" ELSE "ignored"

FollowsLimit(h) ==
  \A n \in 1..Len(h.calls) : h.calls[n][1] = ExpectedOutcome(n, tracker.limit)

\* C1, as stated: under the counter strategy with limit L, the calls made on
\* a key since it was absent (same details hash, no expiry, no drain, no
\* updateConfig between them) return immediate for the first L, deferred for
\* call L+1 and ignored for every later one.
C1_AsStated ==
  Counter => \A k \in AllKeys : hist[k].clean => FollowsLimit(hist[k])

\* C1, amended: the same, for a sequence whose first call did not find
\* maxKeys > 0 records in storage already (then every call on the absent key
\* is refused with key_limit_reached).
C1_CounterSequence ==
  Counter => \A k \in AllKeys :
    /\ hist[k].clean /\ ~hist[k].full => FollowsLimit(hist[k])
    /\ hist[k].clean /\ hist[k].full =>
         \A n \in 1..Len(hist[k].calls) : hist[k].calls[n][1] = "key_limit_reached"

\* a sequence of L+2 calls has run: L immediate, one deferred, one ignored
C1_Witness ==
  /\ Counter
  /\ \E k \in AllKeys :
       /\ hist[k].clean /\ ~hist[k].full
       /\ Len(hist[k].calls) = tracker.limit + 2
       /\ hist[k].calls[tracker.limit + 2][1] = "ignored"

\* C2: with limit = 5, seven calls with the same details on a fresh key
\* return records whose counts are 1,2,3,4,5,6,6.
C2_QuickStartCounts ==
  (Counter /\ tracker.limit = 5) =>
    \A k \in AllKeys :
      (hist[k].clean /\ ~hist[k].full /\ Len(hist[k].calls) = 7) =>
        [n \in 1..7 |-> hist[k].calls[n][2]] = <<1, 2, 3, 4, 5, 6, 6>>

\* the calls the callers of this run can make
Calls == Categories \X workload.ids \X workload.details

KeyOf(call) == generateCompositeKey(call[1], call[2])
Returned(call) == trackEvent(events, tracker, now, call[1], call[2], call[3])
Tracked(call) == TrackEvent(call[1], call[2], call[3])

\* the stored record of `key` is one a call with `details` is folded into:
\* not past its expiresAt, and stored with the hash of these details
Live(key, details) ==
  /\ key \in DOMAIN events
  /\ now <= events[key].expiresAt
  /\ events[key].detailsHash = generateDetailsHash(details)

\* C3: within one deferral episode exactly one trackEvent returns `deferred`
\* and emits the `deferred` notification: the call that turns the record
\* Deferred does, and no later call that finds the record Deferred and
\* leaves it Deferred (neither drained, reset nor un-deferred) does.
C3_OneDeferredPerEpisode ==
  [][\A call \in Calls :
       LET key == KeyOf(call)
           res == Returned(call)
           announced == \E n \in DOMAIN res.emitted : res.emitted[n].event = "deferred"
           inEpisode == Live(key, call[3]) /\ events[key].deferred
       IN (Tracked(call) /\ res.strategyCalled /\ events'[key].deferred) =>
            IF inEpisode
            THEN res.type # "deferred" /\ ~announced
            ELSE res.type = "deferred" /\ announced]_vars

\* the stored records that are deferred and whose scheduledSendAt is at or
\* before t
DueAt(t) ==
  {events[k] : k \in {j \in DOMAIN events :
      /\ events[j].deferred
      /\ events[j].scheduledSendAt # Null
      /\ events[j].scheduledSendAt <= t}}

\* C4: processDeferredEvents at time `now` returns exactly the stored records
\* that are deferred and due, deletes each from storage and emits `processed`
\* once per returned record; every other record stays in storage unchanged;
\* and the next trackEvent for a drained key makes a new record with count 1.
C4_Drain ==
  [][ProcessDeferredEvents =>
       LET res == processDeferredEvents(events, now)
           due == DueAt(now)
       IN /\ res.batch = due
          /\ res.emitted = SetToBag({Emit("processed", r) : r \in due})
          /\ DOMAIN events' = DOMAIN events \ {r.key : r \in due}
          /\ \A k \in DOMAIN events' : events'[k] = events[k]
          /\ \A r \in due, d \in workload.details :
               LET next == trackEvent(events', tracker, now', r.category, r.id, d)
               IN /\ next.type \in {"immediate", "deferred"}
                  /\ next.data # << >>
                  /\ next.data[1].count = 1
                  /\ next.data[1].details = d
                  /\ next.store[r.key] = next.data[1]]_vars

\* a drain has returned records and left others in storage
C4_Witness ==
  /\ last.op = "processDeferredEvents"
  /\ last.n >= 1
  /\ DOMAIN events # {}

\* C5: a processDeferredEvents call that runs right after another one returns
\* an empty batch, emits nothing and leaves storage unchanged.
C5_DrainIdempotent ==
  [][(last.op = "processDeferredEvents" /\ ProcessDeferredEvents) =>
       LET res == processDeferredEvents(events, now)
       IN /\ res.batch = {}
          /\ res.emitted = EmptyBag
          /\ events' = events
          /\ last'.n = 0]_vars

\* a second drain has run right after one that returned records
C5_Witness ==
  /\ last.op = "processDeferredEvents"
  /\ last.drainedBefore >= 1
  /\ last.n = 0

Seen(res) == [type |-> res.type, reason |-> res.reason, data |-> res.data, emitted |-> res.emitted]

\* C7: a trackEvent made after the stored record's expiresAt has the same
\* outcome, returned record and notifications as the same call on a tracker
\* that never saw that key and holds the same other keys.
C7_ExpiredAsNeverSeen ==
  \A call \in Calls :
    LET key == KeyOf(call)
    IN (key \in DOMAIN events /\ now > events[key].expiresAt) =>
         Seen(Returned(call)) =
           Seen(trackEvent([k \in DOMAIN events \ {key} |-> events[k]], tracker, now,
                           call[1], call[2], call[3]))

\* the config a record created now snapshots
FreshConfig ==
  IF Counter THEN [limit |-> tracker.limit, deferInterval |-> tracker.deferInterval]
  ELSE [bucketSize |-> tracker.bucketSize, refillRate |-> tracker.refillRate,
        deferInterval |-> tracker.deferInterval]

\* C8: a trackEvent whose details hash differs from the stored record's, made
\* before expiresAt, leaves a stored record with count 1, the new details and
\* hash, deferred = false, scheduledSendAt = null and a fresh config snapshot
\* (limit >= 1).
C8_DetailsChangeResets ==
  \A call \in Calls :
    LET key == KeyOf(call)
        after == Returned(call).store
    IN ( /\ key \in DOMAIN events
         /\ events[key].detailsHash # generateDetailsHash(call[3])
         /\ now <= events[key].expiresAt
         /\ Counter => tracker.limit >= 1 ) =>
         /\ key \in DOMAIN after
         /\ after[key].count = 1
         /\ after[key].details = call[3]
         /\ after[key].detailsHash = generateDetailsHash(call[3])
         /\ after[key].deferred = FALSE
         /\ after[key].scheduledSendAt = Null
         /\ after[key].config = FreshConfig

KeyLimitNotice(call) ==
  Emit("ignored", [reason |-> "key_limit_reached", category |-> call[1],
                   id |-> call[2], details |-> call[3]])

\* C9: with maxKeys > 0 and size() >= maxKeys, a trackEvent for a key with no
\* stored record returns ignored / key_limit_reached, emits `ignored` with
\* that reason and nothing else, does not call the strategy and writes
\* nothing.
C9_KeyLimitRefuses ==
  [][\A call \in Calls :
       LET res == Returned(call)
       IN ( /\ Tracked(call)
            /\ tracker.maxKeys > 0
            /\ Cardinality(DOMAIN events) >= tracker.maxKeys
            /\ KeyOf(call) \notin DOMAIN events ) =>
            /\ res.type = "ignored"
            /\ res.reason = <<"key_limit_reached">>
            /\ res.data = << >>
            /\ res.emitted = << KeyLimitNotice(call) >>
            /\ ~res.strategyCalled
            /\ events' = events
            /\ last'.type = "key_limit_reached"]_vars

\* a call for a key without a record was made with storage full
C9_Witness ==
  /\ last.op = "trackEvent"
  /\ last.type = "key_limit_reached"
  /\ last.key \notin DOMAIN events
  /\ tracker.maxKeys > 0
  /\ Cardinality(DOMAIN events) >= tracker.maxKeys

\* C10: with maxKeys > 0 and size() >= maxKeys, a trackEvent for a key that
\* has a record in storage (live, expired, or stored with another details
\* hash) is never answered key_limit_reached: the strategy is called and its
\* record written.
C10_ExistingKeysUnaffected ==
  \A call \in Calls :
    LET key == KeyOf(call)
        res == Returned(call)
    IN ( /\ tracker.maxKeys > 0
         /\ Cardinality(DOMAIN events) >= tracker.maxKeys
         /\ key \in DOMAIN events ) =>
         /\ res.reason # <<"key_limit_reached">>
         /\ res.strategyCalled
         /\ res.data # << >>
         /\ res.store[key] = res.data[1]

\* C11: with maxKeys > 0, storage never holds more than maxKeys records,
\* also when trackEvent calls on distinct keys overlap.
C11_KeyLimitBound ==
  tracker.maxKeys > 0 => size(events) <= tracker.maxKeys

\* C12: updateConfig on a key without a stored record returns false, writes
\* nothing and emits nothing; on a key with a stored record it returns true,
\* stores the record with the patch's fields overriding its config and the
\* other config fields kept, and emits `config_updated` once with that record.
C12_UpdateConfig ==
  [][\A c \in Categories, i \in workload.ids, patch \in workload.patches :
       UpdateConfig(c, i, patch) =>
         LET key == generateCompositeKey(c, i)
             res == updateConfig(events, c, i, patch)
         IN IF key \notin DOMAIN events
            THEN /\ ~res.found
                 /\ last'.type = "false"
                 /\ res.emitted = << >>
                 /\ events' = events
            ELSE /\ res.found
                 /\ last'.type = "true"
                 /\ key \in DOMAIN events'
                 /\ DOMAIN events'[key].config = DOMAIN events[key].config \cup DOMAIN patch
                 /\ \A f \in DOMAIN patch : events'[key].config[f] = patch[f]
                 /\ \A f \in DOMAIN events[key].config \ DOMAIN patch :
                      events'[key].config[f] = events[key].config[f]
                 /\ res.emitted = << Emit("config_updated", events'[key]) >>]_vars

\* updateConfig has patched a record: one config field is overridden, another
\* still has the value snapshotted from the tracker
C12_Witness ==
  /\ last.op = "updateConfig"
  /\ last.type = "true"
  /\ last.key \in DOMAIN events
  /\ Counter
  /\ events[last.key].config.limit # tracker.limit
  /\ events[last.key].config.deferInterval = tracker.deferInterval

\* the stored records that are deferred
Deferred == {events[k] : k \in {j \in DOMAIN events : events[j].deferred}}

\* C13: getDeferredEvents (on the local backend, which has no
\* findAllDeferred) returns every stored record with deferred = true, due or
\* not, for every deferInterval and every scheduledSendAt.
C13_AllDeferredListed ==
  getDeferredEvents(events, tracker, now) = Deferred

\* the n-th call of a sequence came before a whole token was refilled: since
\* the record was created, less than 1 / refillRate seconds have passed
NoRefill(h, n) ==
  (h.calls[n][3] - h.calls[1][3]) * tracker.refillRate < MsPerSecond

\* C14: under the token-bucket strategy with bucketSize B >= 1, the calls made
\* on a fresh key with the same details before a whole token is refilled
\* return immediate for the first B (the creating call leaves B - 1 tokens)
\* and deferred for every later one.
C14_BucketSequence ==
  (~Counter /\ tracker.bucketSize >= 1) =>
    \A k \in AllKeys :
      (hist[k].clean /\ ~hist[k].full) =>
        /\ \A n \in 1..Len(hist[k].calls) :
             NoRefill(hist[k], n) =>
               hist[k].calls[n][1] =
                 IF n <= tracker.bucketSize THEN "immediate" ELSE "deferred"
        /\ (Len(hist[k].calls) = 1 /\ k \in DOMAIN events) =>
             events[k].strategyData.tokens = tracker.bucketSize - 1

\* a bucket of two tokens has admitted two calls and suppressed the next two
C14_Witness ==
  /\ ~Counter
  /\ tracker.bucketSize >= 2
  /\ \E k \in AllKeys :
       /\ hist[k].clean /\ ~hist[k].full
       /\ Len(hist[k].calls) = tracker.bucketSize + 2
       /\ NoRefill(hist[k], tracker.bucketSize + 2)
       /\ hist[k].calls[tracker.bucketSize][1] = "immediate"
       /\ hist[k].calls[tracker.bucketSize + 2][1] = "deferred"

\* C15: under the token-bucket strategy a trackEvent folded into a Deferred
\* record after at least one whole token has been refilled returns immediate,
\* consumes one token and stores the record with deferred = false and
\* scheduledSendAt = null, so that neither getDeferredEvents nor
\* processDeferredEvents returns it; under the counter strategy a trackEvent
\* folded into a Deferred record leaves it Deferred.
C15_Undefer ==
  [][\A call \in Calls :
       LET key == KeyOf(call)
           res == Returned(call)
           r == events[key]
       IN (Tracked(call) /\ Live(key, call[3]) /\ r.deferred) =>
            IF Counter
            THEN /\ res.type = "ignored"
                 /\ events'[key].deferred
            ELSE (tokensToAdd(r, now) >= 1 /\ r.config.bucketSize >= 1) =>
                   /\ res.type = "immediate"
                   /\ events'[key].deferred = FALSE
                   /\ events'[key].scheduledSendAt = Null
                   /\ events'[key].strategyData.tokens =
                        Min(r.config.bucketSize,
                            r.strategyData.tokens + tokensToAdd(r, now)) - 1
                   /\ events'[key] \notin getDeferredEvents(events', tracker, now')
                   /\ events'[key] \notin processDeferredEvents(events', now').batch]_vars

\* a token-bucket record was Deferred and the next call on it, after a
\* refill, was admitted: it is stored not deferred
C15_Witness ==
  /\ ~Counter
  /\ \E k \in DOMAIN events :
       LET calls == hist[k].calls
       IN /\ hist[k].clean
          /\ Len(calls) >= 2
          /\ calls[Len(calls) - 1][1] = "deferred"
          /\ calls[Len(calls)][1] = "immediate"
          /\ calls[Len(calls)][3] > calls[Len(calls) - 1][3]
          /\ ~events[k].deferred

IgnoredReasons == {"already_deferred", "key_limit_reached"}

\* C16: every `ignored` notification carries {reason, category, id, details},
\* with reason already_deferred when the strategy ignored the occurrence
\* because its key is deferred, and key_limit_reached when the key limit
\* refused it.
C16_IgnoredPayload ==
  \A call \in Calls :
    LET res == Returned(call)
    IN \A n \in DOMAIN res.emitted :
         res.emitted[n].event = "ignored" =>
           /\ DOMAIN res.emitted[n].payload = {"reason", "category", "id", "details"}
           /\ res.emitted[n].payload.reason \in IgnoredReasons
           /\ res.emitted[n].payload.reason =
                IF res.strategyCalled THEN "already_deferred" ELSE "key_limit_reached"
           /\ res.emitted[n].payload.category = call[1]
           /\ res.emitted[n].payload.id = call[2]
           /\ res.emitted[n].payload.details = call[3]

\* the fields of a record that the strategies read
StrategyFields == {"count", "deferred", "scheduledSendAt", "config", "strategyData"}

\* whether get(key) after set(key, r) gives r back on the strategies' fields
RoundTrip(r) ==
  LET back == redisGet(redisSet(EmptyRedis, r.key, r, now), r.key, now)
  IN /\ back # << >>
     /\ \A f \in StrategyFields \cap DOMAIN r : f \in DOMAIN back[1] /\ back[1][f] = r[f]

\* C17: the Redis backend behaves like the local one for sequential callers:
\* get after set returns the record on every field the strategies read, and
\* the same sequence of trackEvent calls, from either tracker instance, has
\* the same outcomes on both backends.
C17_SharedLikeLocal ==
  /\ \A k \in DOMAIN events : now <= events[k].expiresAt => RoundTrip(events[k])
  /\ lastRedis.type = last.type
  /\ lastRedis.n = last.n

\* a step of a tick of the background processor
ProcessorStep == processor' # processor /\ last'.op \in {"processor:drain", "processor:handler"}

\* C18: with a handler configured, a tick drains what is due and calls the
\* handler if and only if the batch it drained is not empty; when the drain or
\* the handler fails, the listeners of `error` get the failure, and the
\* interval goes on: the timer stays set and the process stays up, so later
\* ticks run.
C18_TickFailureReported ==
  [][ProcessorStep =>
        /\ (last'.op = "processor:drain" /\ last'.type = "drained") =>
             (Len(processor'.ticks) = Len(processor.ticks) <=> last'.n >= 1)
        /\ last'.type = "error" =>
             /\ Heard => delivered'[Len(delivered')] = "error"
             /\ processor'.timer = processor.timer
             /\ Running']_vars

\* C19: once destroy has returned, no new tick of the background processor
\* starts, the backend's destroy has stopped the local store's expiry sweep,
\* and no listener registered before destroy gets a notification any more,
\* not even one of a tick that was in progress when destroy was called.
C19_AfterDestroy ==
  [][lifecycle.destroyed =>
        /\ delivered' = << >>
        /\ ~processor'.timer /\ ~purging'
        /\ Len(processor'.ticks) <= Len(processor.ticks)
        /\ last'.op \notin {"processor:find", "purgeExpired"}]_vars

\* destroy was called during a tick, and the tick then drained a due record:
\* its `processed` notification reached nobody
C19_Witness ==
  /\ lifecycle.destroyed
  /\ last.op = "processor:drain" /\ last.type = "drained" /\ last.n >= 1
  /\ delivered = << >>

\* what a trackEvent or updateConfig that succeeds announces
SuccessNames == {"tracked", "immediate", "deferred", "ignored", "config_updated"}

C22_RecordInvariants ==
  \A k \in DOMAIN events :
    /\ events[k].deferred => events[k].scheduledSendAt # Null
    /\ events[k].count >= 1

\* a drain has returned a due record while another record stays Deferred,
\* scheduled for later
C22_Witness ==
  /\ last.op = "processDeferredEvents"
  /\ last.n >= 1
  /\ \E k \in DOMAIN events :
       events[k].deferred /\ events[k].scheduledSendAt > now

\* C23, as stated: under the counter strategy, every trackEvent folded into
\* an existing record (not reset by expiry or a new details hash) returns
\* `immediate` if and only if the resulting count is <= the limit stored in
\* the record's config, whatever the tracker's limit, also after updateConfig
\* has changed the record's limit.
C23_AsStated ==
  [][\A call \in Calls :
       LET key == KeyOf(call)
           res == Returned(call)
       IN (Counter /\ Tracked(call) /\ Live(key, call[3])) =>
            (res.type = "immediate" <=> events[key].count + 1 <= events[key].config.limit)]_vars

\* C23, amended: the same for a record that is not Deferred, whose call
\* returns `deferred` otherwise; a call folded into a Deferred record returns
\* `ignored` whatever the limit in its config, also when updateConfig has
\* raised the limit above the count.
C23_AdmitsByRecordLimit ==
  [][\A call \in Calls :
       LET key == KeyOf(call)
           res == Returned(call)
           count == events[key].count + 1
       IN (Counter /\ Tracked(call) /\ Live(key, call[3])) =>
            /\ res.data[1].count = count
            /\ IF events[key].deferred THEN res.type = "ignored"
               ELSE IF count <= events[key].config.limit THEN res.type = "immediate"
               ELSE res.type = "deferred"]_vars

\* a record whose limit updateConfig has raised admits an occurrence beyond
\* the tracker's limit
C23_Witness ==
  /\ Counter
  /\ last.op = "trackEvent" /\ last.type = "immediate"
  /\ last.key \in DOMAIN events
  /\ events[last.key].config.limit > tracker.limit
  /\ events[last.key].count > tracker.limit

\* C24: updateConfig(category, id, patch) changes only the config of the
\* record of that key: every other stored record, the other fields of the
\* target record (count, deferred, scheduledSendAt, lastEventTime, expiresAt
\* among them) and the configuration that records created afterwards
\* snapshot are unchanged.
C24_UpdateConfigFrame ==
  [][\A c \in Categories, i \in workload.ids, patch \in workload.patches :
       UpdateConfig(c, i, patch) =>
         LET key == generateCompositeKey(c, i)
         IN /\ DOMAIN events' = DOMAIN events
            /\ \A k \in DOMAIN events \ {key} : events'[k] = events[k]
            /\ key \in DOMAIN events =>
                 [events'[key] EXCEPT !.config = events[key].config] = events[key]
            /\ tracker' = tracker
            /\ \A call \in Calls :
                 LET before == trackEvent(events, tracker, now, call[1], call[2], call[3])
                     after == trackEvent(events', tracker', now', call[1], call[2], call[3])
                 IN (after.strategyCalled /\ after.data[1].count = 1) =>
                      /\ after.data[1].config = FreshConfig
                      /\ before.data = after.data]_vars

\* updateConfig has patched one of two stored records: the other one still
\* has the config it snapshotted, the patched one does not
C24_Witness ==
  /\ last.op = "updateConfig" /\ last.type = "true"
  /\ last.key \in DOMAIN events
  /\ events[last.key].config # FreshConfig
  /\ events[last.key].count >= 2
  /\ \E k \in DOMAIN events \ {last.key} : events[k].config = FreshConfig

\* the time a token takes to come back, in ms, at the rate in this config
MsPerToken(config) == MsPerSecond \div config.refillRate

\* C25, as stated: under the token-bucket strategy, every suppressed
\* occurrence stores scheduledSendAt = now + 1/refillRate seconds, with the
\* refillRate of the record's config, and from one suppressed occurrence of a
\* record to the next scheduledSendAt never moves backward, for any sequence
\* of trackEvent and updateConfig calls on the key.
C25_AsStated ==
  [][\A call \in Calls :
       LET key == KeyOf(call)
           res == Returned(call)
       IN (~Counter /\ Tracked(call) /\ Live(key, call[3]) /\ res.type = "deferred") =>
            /\ events'[key].deferred
            /\ events'[key].scheduledSendAt = now + MsPerToken(events[key].config)
            /\ events[key].deferred =>
                 events'[key].scheduledSendAt >= events[key].scheduledSendAt]_vars

\* C25, amended: every suppressed occurrence stores scheduledSendAt = now +
\* 1/refillRate seconds, with the refillRate of the record's config; from one
\* suppressed occurrence to the next scheduledSendAt never moves backward as
\* long as updateConfig has not changed the record's config; once updateConfig
\* has raised refillRate the next suppressed occurrence can store an earlier
\* scheduledSendAt.
C25_SuppressedSchedule ==
  [][\A call \in Calls :
       LET key == KeyOf(call)
           res == Returned(call)
       IN (~Counter /\ Tracked(call) /\ Live(key, call[3]) /\ res.type = "deferred") =>
            /\ events'[key].deferred
            /\ events'[key].scheduledSendAt = now + MsPerToken(events[key].config)
            /\ (events[key].deferred /\ hist[key].clean) =>
                 events'[key].scheduledSendAt >= events[key].scheduledSendAt]_vars

\* a record was suppressed twice in a row, the second time at a later clock
\* reading, and its schedule moved forward
C25_Witness ==
  /\ ~Counter
  /\ last.op = "trackEvent" /\ last.type = "deferred"
  /\ last.key \in DOMAIN events
  /\ LET h == hist[last.key]
         n == Len(h.calls)
     IN /\ h.clean /\ n >= 3
        /\ h.calls[n][1] = "deferred" /\ h.calls[n - 1][1] = "deferred"
        /\ h.calls[n][3] > h.calls[n - 1][3]
        /\ events[last.key].scheduledSendAt = h.calls[n][3] + MsPerToken(events[last.key].config)

\* C29, as stated: under the token-bucket strategy with bucketSize >= 1, every
\* stored record has 0 <= strategyData.tokens <= config.bucketSize in every
\* reachable state, after any sequence of trackEvent calls, time advances and
\* updateConfig calls that change bucketSize or refillRate.
C29_AsStated ==
  (~Counter /\ tracker.bucketSize >= 1) =>
    \A k \in DOMAIN events :
      /\ 0 <= events[k].strategyData.tokens
      /\ events[k].strategyData.tokens <= events[k].config.bucketSize

\* C29, amended: tokens >= 0 always, and tokens <= config.bucketSize except
\* after an updateConfig that lowered bucketSize below the tokens the record
\* holds: these tokens stay, never growing, until admissions use them up or
\* the next refill caps them at the new bucketSize.
C29_TokensBounded ==
  [][(~Counter /\ tracker.bucketSize >= 1) =>
       \A k \in DOMAIN events' :
         LET after == events'[k]
         IN /\ 0 <= after.strategyData.tokens
            /\ after.strategyData.tokens > after.config.bucketSize =>
                 /\ k \in DOMAIN events
                 /\ after.strategyData.tokens <= events[k].strategyData.tokens
                 /\ \/ /\ last'.op = "updateConfig" /\ last'.key = k
                       /\ after.config.bucketSize < events[k].config.bucketSize
                    \/ /\ events[k].strategyData.tokens > events[k].config.bucketSize
                       /\ after.strategyData.lastRefill = events[k].strategyData.lastRefill]_vars

\* a record whose bucket updateConfig has shrunk was refilled, capped at the
\* new bucketSize, and admitted
C29_Witness ==
  /\ ~Counter
  /\ last.op = "trackEvent" /\ last.type = "immediate"
  /\ last.key \in DOMAIN events
  /\ LET r == events[last.key]
     IN /\ r.config.bucketSize < tracker.bucketSize
        /\ r.config.bucketSize >= 1
        /\ r.strategyData.lastRefill = now /\ now > T0
        /\ r.strategyData.tokens = r.config.bucketSize - 1

\* the call of caller p has read storage and not written yet
ReadNotWritten(p) == inflight[p].pc \in {"get", "size", "track"}

\* the calls of p and q are for the same key, and both have read storage
\* before either has written
BothRead(p, q) ==
  /\ p # q
  /\ ReadNotWritten(p) /\ ReadNotWritten(q)
  /\ CallKey(inflight[p]) = CallKey(inflight[q])

\* the call of caller p rejects in this step
Rejects(p) ==
  /\ inflight[p].pc \in {"get", "size"}
  /\ inflight'[p].pc = "idle"
  /\ lastRedis'.type = "TypeError"

\* C26: on the shared backend, whose get returns independent copies, two
\* trackEvent calls for the same key that both read before either writes both
\* complete, and the record stored once both have written is the one the
\* later set wrote: its count has grown by one, not two.
C26_LostUpdate ==
  [][\A p \in Callers, q \in Callers :
       /\ BothRead(p, q) => ~Rejects(p)
       /\ ( /\ p # q
            /\ inflight'[p].pc = "set" /\ inflight'[q].pc = "set"
            /\ CallKey(inflight'[p]) = CallKey(inflight'[q])
            /\ objs'[Own(p)].count = objs'[Own(q)].count
            /\ redisGet(redis', CallKey(inflight'[p]), now') # << >> ) =>
            LET stored == redisGet(redis', CallKey(inflight'[p]), now')[1]
            IN /\ stored.count = objs'[Own(p)].count
               /\ \E w \in {p, q} :
                    /\ stored.deferred = objs'[Own(w)].deferred
                    /\ stored.scheduledSendAt = objs'[Own(w)].scheduledSendAt
                    /\ stored.lastEventTime = objs'[Own(w)].lastEventTime]_vars

\* storage.set of caller p puts a record under the absent key k
PutsBack(p, k) ==
  /\ inflight[p].pc = "track" /\ inflight'[p].pc = "set"
  /\ CallKey(inflight[p]) = k
  /\ k \notin DOMAIN events /\ k \in DOMAIN events'

\* C27, as stated: a drained record never comes back.  Once
\* processDeferredEvents has returned the record of key k (the only way a
\* key leaves storage here), storage holds for k nothing or a fresh record
\* with count 1 under every interleaving with the trackEvent calls in flight
\* on k, and a drain leaves no due record behind for a later drain.
C27_AsStated ==
  [][/\ \A k \in AllKeys :
          (k \notin DOMAIN events /\ k \in DOMAIN events') => events'[k].count = 1
     /\ last'.op = "processDeferredEvents" /\ last' # last =>
          findDueDeferred(events', now') = {}]_vars

\* C27, amended: the same, unless a trackEvent call on k was in flight when
\* the record was drained: the storage.set of such a call can write the
\* record object it holds back (the old count and one more, deferred, the
\* old scheduledSendAt), and a later processDeferredEvents returns it again.
C27_DrainedStaysOut ==
  [][/\ \A k \in AllKeys :
          (k \notin DOMAIN events /\ k \in DOMAIN events') =>
             \/ events'[k].count = 1
             \/ \E p \in Callers : PutsBack(p, k) /\ inflight[p].drained
     /\ last'.op = "processDeferredEvents" /\ last' # last =>
          findDueDeferred(events', now') = {}]_vars

\* a record was drained with no call in flight on its key, and the next
\* trackEvent on the key has stored a fresh record
C27_Witness ==
  /\ last.op = "trackEvent" /\ last.drainedBefore >= 1 /\ last.n = 1
  /\ last.key \in DOMAIN events
  /\ events[last.key].count = 1
  /\ events[last.key].lastEventTime > T0
  /\ \A p \in Callers : inflight[p].pc = "idle"

\* the handler of tick i fails in this step
HandlerFails(i) ==
  /\ i \in DOMAIN processor.ticks
  /\ processor.ticks[i].pc = "handler"
  /\ processor'.ticks = Without(processor.ticks, i)
  /\ last'.op = "processor:handler" /\ last'.type = "error"

\* tick i has drained its batch in this step and calls the handler
HandlerCalled(i) ==
  /\ i \in DOMAIN processor.ticks
  /\ Len(processor'.ticks) = Len(processor.ticks)
  /\ processor.ticks[i].pc = "find" /\ processor'.ticks[i].pc = "handler"

\* C28, as stated: in a tick of the background processor a due record is
\* not lost when the handler fails: it is removed from storage only once
\* onDeferredEventDue has completed successfully for a batch containing it,
\* so after a failed handler call it is still in storage (where a later tick
\* finds it).
C28_AsStated ==
  [][\A i \in 1..MaxTicksInFlight :
       /\ HandlerCalled(i) =>
            \A r \in processor.ticks[i].due : r.key \in DOMAIN events
                                              => r.key \in DOMAIN events'
       /\ HandlerFails(i) =>
            \A r \in processor.ticks[i].due :
              r.key \in DOMAIN events' /\ events'[r.key] = r]_vars

\* C28, amended: a tick removes the due records from storage before it calls
\* the handler (processDeferredEvents deletes them and emits `processed` for
\* each); a handler that fails restores nothing: the tick ends with `error`
\* for its listeners, the records of the batch are not in storage, and no
\* later tick delivers them again.
C28_DrainedBeforeHandler ==
  [][\A i \in 1..MaxTicksInFlight :
       /\ HandlerCalled(i) =>
            /\ processor.ticks[i].due # {}
            /\ \A r \in processor.ticks[i].due : r.key \notin DOMAIN events'
            /\ "processed" \in listeners =>
                 delivered' = [n \in 1..Cardinality(processor.ticks[i].due) |-> "processed"]
       /\ HandlerFails(i) =>
            /\ events' = events
            /\ Heard => delivered' = << "error" >>
            /\ \A r \in processor.ticks[i].due :
                 r.key \notin DOMAIN events' \/ events'[r.key] # r
            /\ \A r \in processor.ticks[i].due : r \notin findDueDeferred(events', now')]_vars

\* the handler of a tick has failed for a batch of one record, which is not
\* in storage any more, and the process goes on
C28_Witness ==
  /\ last.op = "processor:handler" /\ last.type = "error" /\ last.n >= 1
  /\ events = EmptyStore
  /\ processor.ticks = << >>
  /\ Running

============================================================================
